---- MODULE Spec2Model ----
(***************************************************************************)
(* The activity ingestion pipeline of the remote-work-tracker backend:     *)
(*   app/api/v1/endpoints/activity.py   get_api_key, receive_activity      *)
(*   app/services/categorization.py     classify_with_ai, classify_activity*)
(*   app/schemas/activity.py            ActivityLogEntry, ActivityPayload  *)
(*   app/db/models.py                   User, ActivityLog                  *)
(* and the user administration of app/api/v1/endpoints/admin.py:           *)
(*   create_user, remove_user, update_user_details                         *)
(*                                                                         *)
(* receive_activity is a coroutine: while one request is suspended on its  *)
(* classifications the server takes another, so several requests are in    *)
(* progress at once.  Within a request the handler fans the samples out    *)
(* with asyncio.gather: every classification task is started in input      *)
(* order and runs to its first suspension (the HTTP POST to the AI         *)
(* service); the responses then arrive in any order.  The admin handlers   *)
(* are plain functions run in worker threads, one database statement at a  *)
(* time, so two admin calls interleave between their statements.           *)
(***************************************************************************)
EXTENDS Integers, Sequences, FiniteSets, TLC

VARIABLES
    users,      \* rows of the users table:
                \*   [id, employee_id, email, role, manager_id]
    db,         \* committed rows of activity_logs, in commit order
    aiKey,      \* settings.PERPLEXITY_AI_API_KEY
    pc,         \* per request, the position of its handler: idle, auth,
                \*   lookup, gather, cancelling, interrupted, done
    req,        \* per request, the request on the wire: [key, employee_id, logs]
    payload,    \* per request, the validated ActivityPayload
    userId,     \* per request, user.id once the employee is resolved, else 0
    tasks,      \* per request, one classification task per sample
    lookups,    \* per request, the user queries it issued
    committed,  \* per request, the number of rows it has committed
    response,   \* per request, [status, logs_processed, error] as answered
    logsToAdd,  \* per request, logs_to_add: the records it assembled
    nextUserId, \* the id the users table gives its next row
    adminCall   \* per admin call in progress: [op, user_id, pc, status, args]

\* The state of the user administration
adminVars == <<nextUserId, adminCall>>

vars == <<users, db, aiKey, pc, req, payload, userId, tasks, lookups, committed,
          response, logsToAdd, adminVars>>

----------------------------------------------------------------------------
(* Bounds *)

\* The longest batch a request carries
MaxBatch == 2

\* The largest id the users table hands out
MaxUserId == 2

----------------------------------------------------------------------------
(* Values *)

\* The requests in progress at once, and likewise the admin calls
Requests == {"A", "B"}

\* Python's None
NoneVal == "<None>"

\* No X-API-Key header on the request
NoHeader == "<no header>"

\* settings.DAEMON_API_KEY
DAEMON_API_KEY == "daemon-secret"

Keys == {NoHeader, DAEMON_API_KEY, "Daemon-Secret"}

AiKeys == {"", "pplx-key"}

\* manager_id of a user without a manager (NULL)
NoManager == 0

InitialUsers ==
    {[id |-> 1, employee_id |-> "emp_1", email |-> "u1@x.io", role |-> "hr",
      manager_id |-> NoManager]}

EmployeeIds == {"emp_1", "emp_404"}

SampleStates == {"active", "idle"}

SampleApps == {NoneVal, "VS Code", "Spotify", "Chrome", "Notepad"}

SampleTitles == {NoneVal, "", "T"}

\* Samples as the daemon sends them, with the fields of ActivityLogEntry
WideSamples ==
    [timestamp : {1}, state : SampleStates, app : SampleApps \cup {""},
     title : SampleTitles]

\* The samples batches are made of: an active one, and an idle one that
\* carries an extra "duration" key.
PlainSamples ==
    [timestamp : {1}, state : {"active"}, app : {"VS Code"}, title : {"T"}]

TimedSamples ==
    { s @@ [duration |-> 42] :
        s \in [timestamp : {2}, state : {"idle"}, app : {"Spotify"}, title : {"T"}] }

RawSamples == PlainSamples \cup TimedSamples

RECURSIVE SeqsUpTo(_, _)
SeqsUpTo(S, n) ==
    IF n = 0 THEN {<<>>}
    ELSE LET shorter == SeqsUpTo(S, n - 1)
         IN  shorter \cup { Append(q, s) : q \in {p \in shorter : Len(p) = n - 1}, s \in S }

RawBatches == SeqsUpTo(RawSamples, MaxBatch)

\* One sample per request, any sample
WideBatches == {<<s>> : s \in WideSamples}

----------------------------------------------------------------------------
(* Python truthiness and `or` on optional strings *)

Truthy(v) == v # NoneVal /\ v # ""

\* a or b
PyOr(a, b) == IF Truthy(a) THEN a ELSE b

----------------------------------------------------------------------------
(* app/schemas/activity.py *)

ActivityLogEntryFields == {"timestamp", "state", "app", "title"}

\* pydantic validation of one entry: declared fields are kept, unknown keys
\* are ignored (the default extra policy).
ParseEntry(raw) == [f \in ActivityLogEntryFields |-> raw[f]]

ParsePayload(r) ==
    [employee_id |-> r.employee_id,
     logs        |-> [i \in 1..Len(r.logs) |-> ParseEntry(r.logs[i])]]

\* attribute access on a pydantic model: AttributeError for an undeclared field
HasAttr(log, f) == f \in DOMAIN log

----------------------------------------------------------------------------
(* app/services/categorization.py: classify_with_ai *)

\* What the POST to the AI service can come back with.  A response is read
\* field by field; a field matters only when everything before it was fine.
\*   net      ok | timeout | connect_error
\*   status   HTTP status code
\*   body     not_json | array | object            (response.json())
\*   choices  missing | empty | one                (['choices'][0])
\*   content  missing | null | text                (['message']['content'])
\*   parsed   not_json | array | object            (json.loads(content))
\*   category missing | Work | Private | Idle      (.get("category"))
GoodResponse ==
    [net |-> "ok", status |-> 200, body |-> "object", choices |-> "one",
     content |-> "text", parsed |-> "object", category |-> "Work"]

AIResponses ==
    { [GoodResponse EXCEPT !.net = n] : n \in {"timeout", "connect_error"} }
    \cup { [GoodResponse EXCEPT !.status = 500] }
    \cup { [GoodResponse EXCEPT !.body = b] : b \in {"not_json", "array"} }
    \cup { [GoodResponse EXCEPT !.choices = c] : c \in {"missing", "empty"} }
    \cup { [GoodResponse EXCEPT !.content = c] : c \in {"missing", "null"} }
    \cup { [GoodResponse EXCEPT !.parsed = p] : p \in {"not_json", "array"} }
    \cup { [GoodResponse EXCEPT !.category = c] :
             c \in {"missing", "Work", "Private", "Idle"} }

Returns(v) == [raised |-> FALSE, exc |-> NoneVal, value |-> v]

Raises(e) == [raised |-> TRUE, exc |-> e, value |-> NoneVal]

\* The try block of classify_with_ai and its two except clauses.
ClassifyWithAi(r) ==
    IF r.net # "ok" THEN Returns("Private")                  \* httpx.RequestError
    ELSE IF r.status \notin 200..299 THEN Returns("Private") \* httpx.HTTPStatusError
    ELSE IF r.body = "not_json" THEN Returns("Private")      \* json.JSONDecodeError
    ELSE IF r.body = "array" THEN Raises("TypeError")        \* list['choices']
    ELSE IF r.choices = "missing" THEN Returns("Private")    \* KeyError
    ELSE IF r.choices = "empty" THEN Raises("IndexError")    \* [][0]
    ELSE IF r.content = "missing" THEN Returns("Private")    \* KeyError
    ELSE IF r.content = "null" THEN Raises("AttributeError") \* None.strip()
    ELSE IF r.parsed = "not_json" THEN Returns("Private")    \* json.JSONDecodeError
    ELSE IF r.parsed # "object" THEN Raises("AttributeError") \* list.get
    ELSE IF r.category \in {"Work", "Private"} THEN Returns(r.category)
    ELSE Returns("Private")

----------------------------------------------------------------------------
(* app/services/categorization.py: classify_activity *)

\* Variant: a sample counts as idle only when it names no application.
IsIdleWithoutApp(log) == log.state = "idle" /\ ~Truthy(log.app)

\* if log.state == "idle": return "Idle", None
IsIdle(log) == log.state = "idle"

\* Variant: the details string built whatever the category.
DetailsForAnyCategory(log, category) ==
    IF Truthy(log.app) /\ Truthy(log.title)
    THEN log.app \o " - " \o log.title
    ELSE PyOr(log.title, log.app)

\* The details string built once the category is known.
Details(log, category) ==
    IF category = "Work"
    THEN IF Truthy(log.app) /\ Truthy(log.title)
         THEN log.app \o " - " \o log.title
         ELSE PyOr(log.title, log.app)
    ELSE NoneVal

\* A classification task: new (not yet run), waiting (suspended on the POST),
\* done (returned category, details), raised (exception exc escaped) or
\* cancelled.
\* called: classify_with_ai was invoked; posted: the POST was sent.
\* propagated: gather handed this task's exception to the handler's await.
NewTask ==
    [status |-> "new", called |-> FALSE, posted |-> FALSE,
     category |-> NoneVal, details |-> NoneVal, exc |-> NoneVal,
     propagated |-> FALSE]

TaskDone(called, posted, category, details) ==
    [status |-> "done", called |-> called, posted |-> posted,
     category |-> category, details |-> details, exc |-> NoneVal,
     propagated |-> FALSE]

\* classify_activity up to its first suspension
TaskStarted(log, key) ==
    IF IsIdle(log) THEN TaskDone(FALSE, FALSE, "Idle", NoneVal)
    ELSE IF key = "" THEN TaskDone(TRUE, FALSE, "Private", Details(log, "Private"))
    ELSE [NewTask EXCEPT !.status = "waiting", !.called = TRUE, !.posted = TRUE]

\* classify_activity resumed with the AI response r
TaskResumed(log, r) ==
    LET out == ClassifyWithAi(r)
    IN  IF out.raised
        THEN [NewTask EXCEPT !.status = "raised", !.called = TRUE,
                             !.posted = TRUE, !.exc = out.exc]
        ELSE TaskDone(TRUE, TRUE, out.value, Details(log, out.value))

----------------------------------------------------------------------------
(* app/api/v1/endpoints/activity.py: receive_activity, after the gather *)

NoResponse == [status |-> 0, logs_processed |-> 0, error |-> ""]

\* What the daemon gets: the returned body, or the error raised.
Ok(n) == [status |-> 200, logs_processed |-> n, error |-> ""]

Failed(code, e) == [status |-> code, logs_processed |-> 0, error |-> e]

ActivityLog(user_id, start_time, duration_seconds, category, details) ==
    [user_id |-> user_id, start_time |-> start_time,
     duration_seconds |-> duration_seconds, category |-> category,
     details |-> details]

\* The zip loop: records assembled before the loop ends or an attribute
\* access fails.  [error, records]
RECURSIVE AssembleFrom(_, _, _, _, _)
AssembleFrom(i, uid, logs, results, acc) ==
    IF i > Len(logs) \/ i > Len(results) THEN [error |-> FALSE, records |-> acc]
    ELSE IF ~HasAttr(logs[i], "duration") THEN [error |-> TRUE, records |-> acc]
    ELSE AssembleFrom(i + 1, uid, logs, results,
            Append(acc, ActivityLog(uid, logs[i].timestamp, logs[i].duration,
                                    results[i].category, results[i].details)))

Assemble(uid, logs, results) == AssembleFrom(1, uid, logs, results, <<>>)

\* db.add_all(logs_to_add); db.commit(): one transaction, all rows or none
Commit(rows, logs_to_add, ok) == IF ok THEN rows \o logs_to_add ELSE rows

\* Variant: the loop with a fixed duration and a commit per record; a
\* refused commit is the last one.
RECURSIVE CommitEachFrom(_, _, _, _, _, _)
CommitEachFrom(i, uid, logs, results, rows, ok) ==
    IF i > Len(logs) \/ i > Len(results)
    THEN [db |-> rows, response |-> Ok(Len(logs)), logs_to_add |-> <<>>]
    ELSE IF i = Len(logs) /\ ~ok
    THEN [db |-> rows, response |-> Failed(500, "SQLAlchemyError"), logs_to_add |-> <<>>]
    ELSE CommitEachFrom(i + 1, uid, logs, results,
            Append(rows, ActivityLog(uid, logs[i].timestamp, 5,
                                     results[i].category, results[i].details)), ok)

HandlerTailCommitEach(uid, logs, results, rows, ok) ==
    CommitEachFrom(1, uid, logs, results, rows, ok)

\* Lines 52-70 as one step: [db, response, logs_to_add].  ok is whether the
\* store accepts the commit.
HandlerTail(uid, logs, results, rows, ok) ==
    LET built == Assemble(uid, logs, results)
    IN  IF built.error
        THEN [db |-> rows, response |-> Failed(500, "AttributeError"),
              logs_to_add |-> built.records]
        ELSE IF built.records = <<>>
        THEN [db |-> rows, response |-> Ok(0), logs_to_add |-> built.records]
        ELSE IF ok
        THEN [db |-> Commit(rows, built.records, TRUE),
              response |-> Ok(Len(built.records)), logs_to_add |-> built.records]
        ELSE [db |-> Commit(rows, built.records, FALSE),
              response |-> Failed(500, "SQLAlchemyError"),
              logs_to_add |-> built.records]

----------------------------------------------------------------------------
(* The state machine *)

NoRequest == [key |-> NoHeader, employee_id |-> "", logs |-> <<>>]

NoPayload == [employee_id |-> "", logs |-> <<>>]

\* A manager_id the request body does not set
Unset == -1

\* The fields an admin request carries; "" and Unset stand for a field that
\* is not set.
NoArgs == [email |-> "", role |-> "", manager_id |-> Unset]

\* No users row is held by the call's session.
NoUser == [id |-> 0, employee_id |-> "", email |-> "", role |-> "",
           manager_id |-> NoManager]

\* No admin call has been taken yet.
NoCall == [op |-> "", user_id |-> 0, pc |-> "idle", status |-> 0, args |-> NoArgs,
           loaded |-> NoUser]

Init ==
    /\ users = InitialUsers
    /\ db = <<>>
    /\ aiKey \in AiKeys
    /\ pc = [r \in Requests |-> "idle"]
    /\ req = [r \in Requests |-> NoRequest]
    /\ payload = [r \in Requests |-> NoPayload]
    /\ userId = [r \in Requests |-> 0]
    /\ tasks = [r \in Requests |-> <<>>]
    /\ lookups = [r \in Requests |-> 0]
    /\ committed = [r \in Requests |-> 0]
    /\ response = [r \in Requests |-> NoResponse]
    /\ logsToAdd = [r \in Requests |-> <<>>]
    /\ nextUserId = 2
    /\ adminCall = [c \in Requests |-> NoCall]

\* The daemon posts a batch to /activity.
SubmitFrom(r, keys, employees, batches) ==
    /\ pc[r] = "idle"
    /\ \E k \in keys, e \in employees, b \in batches :
         req' = [req EXCEPT ![r] = [key |-> k, employee_id |-> e, logs |-> b]]
    /\ pc' = [pc EXCEPT ![r] = "auth"]
    /\ committed' = [committed EXCEPT ![r] = 0]
    /\ UNCHANGED <<adminVars, users, db, aiKey, payload, userId, tasks, lookups, response, logsToAdd>>

Submit(r) == SubmitFrom(r, Keys, EmployeeIds, RawBatches)

\* Variant: the key compared without regard to case.
KeyMatchesIgnoringCase(key) == key \in {DAEMON_API_KEY, "Daemon-Secret"}

\* if key == settings.DAEMON_API_KEY
KeyMatches(key) == key = DAEMON_API_KEY

\* get_api_key raises 403 (as does the header scheme when the header is absent).
GetApiKeyReject(r) ==
    /\ pc[r] = "auth"
    /\ ~KeyMatches(req[r].key)
    /\ response' = [response EXCEPT ![r] = Failed(403, "HTTPException")]
    /\ pc' = [pc EXCEPT ![r] = "done"]
    /\ UNCHANGED <<adminVars, users, db, aiKey, req, payload, userId, tasks, lookups, committed, logsToAdd>>

\* get_api_key returns the key; the body is validated into an ActivityPayload.
GetApiKeyAccept(r) ==
    /\ pc[r] = "auth"
    /\ KeyMatches(req[r].key)
    /\ payload' = [payload EXCEPT ![r] = ParsePayload(req[r])]
    /\ pc' = [pc EXCEPT ![r] = "lookup"]
    /\ UNCHANGED <<adminVars, users, db, aiKey, req, userId, tasks, lookups, response, committed, logsToAdd>>

\* Variant: the query without its filter.
UsersWithAnyId(eid) == users

\* db.query(models.User).filter(models.User.employee_id == eid)
UsersWith(eid) == {u \in users : u.employee_id = eid}

\* db.query(User).filter(employee_id == ...).first() finds nobody: 404.
UserNotFound(r) ==
    /\ pc[r] = "lookup"
    /\ UsersWith(payload[r].employee_id) = {}
    /\ lookups' = [lookups EXCEPT ![r] = @ + 1]
    /\ response' = [response EXCEPT ![r] = Failed(404, "HTTPException")]
    /\ pc' = [pc EXCEPT ![r] = "done"]
    /\ UNCHANGED <<adminVars, users, db, aiKey, req, payload, userId, tasks, committed, logsToAdd>>

\* The user is found; one classification coroutine is created per sample and
\* handed to asyncio.gather, where the handler suspends.  With no sample
\* the gather is done at once: the handler does not suspend and runs its
\* tail in the same step.
UserFound(r) ==
    /\ pc[r] = "lookup"
    /\ \E u \in UsersWith(payload[r].employee_id) :
         /\ userId' = [userId EXCEPT ![r] = u.id]
         /\ IF payload[r].logs = <<>>
            THEN LET out == HandlerTail(u.id, <<>>, <<>>, db, TRUE)
                 IN  /\ db' = out.db
                     /\ response' = [response EXCEPT ![r] = out.response]
                     /\ logsToAdd' = [logsToAdd EXCEPT ![r] = out.logs_to_add]
                     /\ committed' = [committed EXCEPT ![r] = Len(out.db) - Len(db)]
                     /\ pc' = [pc EXCEPT ![r] = "done"]
            ELSE /\ pc' = [pc EXCEPT ![r] = "gather"]
                 /\ UNCHANGED <<db, response, logsToAdd, committed>>
    /\ lookups' = [lookups EXCEPT ![r] = @ + 1]
    /\ tasks' = [tasks EXCEPT ![r] = [i \in 1..Len(payload[r].logs) |-> NewTask]]
    /\ UNCHANGED <<adminVars, users, aiKey, req, payload>>

\* The event loop runs the tasks of a gather in creation order, each to its
\* first suspension, before it polls for any response.
StartTask(r) ==
    /\ pc[r] = "gather"
    /\ \E i \in 1..Len(tasks[r]) :
         /\ tasks[r][i].status = "new"
         /\ \A j \in 1..(i - 1) : tasks[r][j].status # "new"
         /\ tasks' = [tasks EXCEPT ![r][i] = TaskStarted(payload[r].logs[i], aiKey)]
    /\ UNCHANGED <<adminVars, users, db, aiKey, pc, req, payload, userId, lookups, response, committed, logsToAdd>>

\* A task is unfinished while it has not returned, raised or been cancelled.
Unfinished(t) == t.status \in {"new", "waiting"}

\* The gather's future is pending: the handler is suspended on it and no
\* task has raised yet.
GatherPending(p, ts) ==
    p = "gather" /\ \A j \in 1..Len(ts) : ts[j].status # "raised"

\* gather's done-callback: the first exception of a child, while the future
\* is pending, becomes the exception of the gather.
Noted(t, pending) ==
    IF t.status = "raised" /\ pending THEN [t EXCEPT !.propagated = TRUE] ELSE t

\* The AI service answers (or the POST fails) for one waiting task.  A task
\* keeps waiting for its answer after the handler has been given the
\* exception of another task, or a cancellation that found the gather
\* finished: gather does not cancel its other children.
AiRespondFrom(r, answers) ==
    /\ pc[r] \in {"gather", "interrupted", "done"}
    /\ \A j \in 1..Len(tasks[r]) : tasks[r][j].status # "new"
    /\ \E i \in 1..Len(tasks[r]), a \in answers :
         /\ tasks[r][i].status = "waiting"
         /\ tasks' = [tasks EXCEPT ![r][i] =
                        Noted(TaskResumed(payload[r].logs[i], a),
                              GatherPending(pc[r], tasks[r]))]
    /\ UNCHANGED <<adminVars, users, db, aiKey, pc, req, payload, userId, lookups, response, committed, logsToAdd>>

\* One answer of each kind: a category, a failure the classifier catches
\* and one it does not.
CommonResponses ==
    { GoodResponse,
      [GoodResponse EXCEPT !.net = "timeout"],
      [GoodResponse EXCEPT !.choices = "empty"] }

AiRespond(r) == AiRespondFrom(r, CommonResponses)

AiRespondAny(r) == AiRespondFrom(r, AIResponses)

\* gather re-raises the exception of a task into the handler: 500.  When the
\* request was cancelled after a task had raised but before gather took note
\* of it, the other children are cancelled first and the handler still gets
\* the task's exception.
GatherRaise(r) ==
    /\ \/ pc[r] = "gather"
       \/ /\ pc[r] = "cancelling"
          /\ \A j \in 1..Len(tasks[r]) : ~Unfinished(tasks[r][j])
    /\ \E i \in 1..Len(tasks[r]) :
         /\ tasks[r][i].propagated
         /\ response' = [response EXCEPT ![r] = Failed(500, tasks[r][i].exc)]
    /\ pc' = [pc EXCEPT ![r] = "done"]
    /\ UNCHANGED <<adminVars, users, db, aiKey, req, payload, userId, tasks, lookups, committed, logsToAdd>>

\* Variant: the handler resumes as soon as one classification has returned.
FirstResolved(ts) == ts = <<>> \/ \E i \in 1..Len(ts) : ts[i].status = "done"

\* await asyncio.gather(...) returns once every task has returned.
AllResolved(ts) == \A i \in 1..Len(ts) : ts[i].status = "done"

\* Every task returned: the records are assembled and committed.
FinishRequest(r) ==
    /\ pc[r] = "gather"
    /\ AllResolved(tasks[r])
    /\ \E ok \in BOOLEAN :
         LET out == HandlerTail(userId[r], payload[r].logs, tasks[r], db, ok)
         IN  /\ db' = out.db
             /\ response' = [response EXCEPT ![r] = out.response]
             /\ logsToAdd' = [logsToAdd EXCEPT ![r] = out.logs_to_add]
             /\ committed' = [committed EXCEPT ![r] = Len(out.db) - Len(db)]
    /\ pc' = [pc EXCEPT ![r] = "done"]
    /\ UNCHANGED <<adminVars, users, aiKey, req, payload, userId, tasks, lookups>>

\* Task.cancel() on a child of the gather: a task that has not finished is
\* cancelled, whether it was suspended on the POST or had not run yet.
CancelledTask(t) ==
    IF Unfinished(t) THEN [t EXCEPT !.status = "cancelled"] ELSE t

\* The request is cancelled (client gone, server timeout) while the handler
\* is suspended on the gather; a handler with no sample never is.  The cancellation reaches the handler either
\* in the loop iteration in which it suspended, before any child has run, or
\* after every child has had its first run.  While the gather's future is
\* pending the cancellation is passed to the children; once it is done (every
\* child finished, or an exception was handed over) the children are left
\* alone and the handler itself is interrupted.  With a raised child whose
\* exception the gather has been given or is about to be given, both can happen.
CancelRequest(r) ==
    /\ pc[r] = "gather"
    /\ \/ \A j \in 1..Len(tasks[r]) : tasks[r][j].status = "new"
       \/ \A j \in 1..Len(tasks[r]) : tasks[r][j].status # "new"
    /\ \E p \in {"cancelling", "interrupted"} :
         /\ p = "cancelling" => \E j \in 1..Len(tasks[r]) : Unfinished(tasks[r][j])
         /\ p = "interrupted" =>
              \/ \A j \in 1..Len(tasks[r]) : ~Unfinished(tasks[r][j])
              \/ \E j \in 1..Len(tasks[r]) : tasks[r][j].propagated
         /\ pc' = [pc EXCEPT ![r] = p]
    /\ UNCHANGED <<adminVars, users, db, aiKey, req, payload, userId, tasks, lookups, response, committed, logsToAdd>>

\* Each cancelled child ends in a callback of its own.  Children that had
\* not run end in creation order, at their queued first step.  A waiting
\* child whose answer had just been delivered ends at the wake-up already
\* queued for it, ahead of the others, so waiting children end in any order.
CancelTask(r) ==
    /\ pc[r] = "cancelling"
    /\ \E i \in 1..Len(tasks[r]) :
         /\ \/ tasks[r][i].status = "waiting"
            \/ /\ tasks[r][i].status = "new"
               /\ \A j \in 1..(i - 1) : tasks[r][j].status # "new"
         /\ tasks' = [tasks EXCEPT ![r][i] = CancelledTask(tasks[r][i])]
    /\ UNCHANGED <<adminVars, users, db, aiKey, pc, req, payload, userId, lookups, response, committed, logsToAdd>>

\* CancelledError is raised at the handler's await: after the last cancelled
\* child has ended, or at once when the handler itself was interrupted.  The
\* handler never reaches its tail.
AbortRequest(r) ==
    /\ \/ pc[r] = "interrupted"
       \/ /\ pc[r] = "cancelling"
          /\ \A j \in 1..Len(tasks[r]) :
               ~Unfinished(tasks[r][j]) /\ ~tasks[r][j].propagated
    /\ response' = [response EXCEPT ![r] = Failed(0, "CancelledError")]
    /\ pc' = [pc EXCEPT ![r] = "done"]
    /\ UNCHANGED <<adminVars, users, db, aiKey, req, payload, userId, tasks, lookups, committed, logsToAdd>>

\* The response has been sent, the request's tasks have all ended and its
\* objects are released.
CloseRequest(r) ==
    /\ pc[r] = "done"
    /\ \A j \in 1..Len(tasks[r]) : ~Unfinished(tasks[r][j])
    /\ pc' = [pc EXCEPT ![r] = "idle"]
    /\ req' = [req EXCEPT ![r] = NoRequest]
    /\ payload' = [payload EXCEPT ![r] = NoPayload]
    /\ userId' = [userId EXCEPT ![r] = 0]
    /\ tasks' = [tasks EXCEPT ![r] = <<>>]
    /\ lookups' = [lookups EXCEPT ![r] = 0]
    /\ committed' = [committed EXCEPT ![r] = 0]
    /\ response' = [response EXCEPT ![r] = NoResponse]
    /\ logsToAdd' = [logsToAdd EXCEPT ![r] = <<>>]
    /\ UNCHANGED <<adminVars, users, db, aiKey>>

Next ==
    \E r \in Requests :
        \/ Submit(r)
        \/ GetApiKeyReject(r)
        \/ GetApiKeyAccept(r)
        \/ UserNotFound(r)
        \/ UserFound(r)
        \/ StartTask(r)
        \/ AiRespond(r)
        \/ GatherRaise(r)
        \/ FinishRequest(r)
        \/ CloseRequest(r)

Spec == Init /\ [][Next]_vars

\* The same server with requests that may be cancelled while they wait for
\* their classifications; every request carries the daemon's key and a known
\* employee.
KnownEmployeeIds == {u.employee_id : u \in InitialUsers}

SubmitCancellable(r) == SubmitFrom(r, {DAEMON_API_KEY}, KnownEmployeeIds, RawBatches)

NextCancel ==
    \E r \in Requests :
        \/ SubmitCancellable(r)
        \/ GetApiKeyAccept(r)
        \/ UserFound(r)
        \/ StartTask(r)
        \/ AiRespond(r)
        \/ GatherRaise(r)
        \/ FinishRequest(r)
        \/ CancelRequest(r)
        \/ CancelTask(r)
        \/ AbortRequest(r)
        \/ CloseRequest(r)

SpecCancel == Init /\ [][NextCancel]_vars

\* The same server fed one sample per request, the sample drawn from a wider
\* set that also has the empty application name.
SubmitOne(r) == SubmitFrom(r, {DAEMON_API_KEY}, KnownEmployeeIds, WideBatches)

NextClassify ==
    \E r \in Requests :
        \/ SubmitOne(r)
        \/ GetApiKeyAccept(r)
        \/ UserFound(r)
        \/ StartTask(r)
        \/ AiRespondAny(r)
        \/ GatherRaise(r)
        \/ FinishRequest(r)
        \/ CloseRequest(r)

SpecClassify == Init /\ [][NextClassify]_vars

----------------------------------------------------------------------------
(* app/api/v1/endpoints/admin.py: create_user, remove_user,                *)
(* update_user_details, behind security.get_current_admin_user.  A handler *)
(* runs in a worker thread and talks to the database one statement at a    *)
(* time; every statement sees what has been committed by then.  The        *)
(* authentication is a dependency that runs, with a SELECT of its own,     *)
(* before the handler's body, on the session the body uses: the row it     *)
(* loads stays in that session, and a later query that finds the same row  *)
(* returns it with the attributes it was loaded with.                      *)

\* Roles the users table accepts (its check constraint)
Roles == {"employee", "manager", "hr", "ceo"}

UserIds == 1..MaxUserId

\* The addresses a create_user request may give
Emails == {"u" \o ToString(i) \o "@x.io" : i \in UserIds}

ManagerIds == {NoManager} \cup UserIds

AdminOps == {"create_user", "remove_user", "update_user_details"}

\* if current_user.role not in ["hr", "ceo"]: 403
IsAdmin(u) == u.role \in {"hr", "ceo"}

\* A call in progress: its handler is at step p.
AdminCall(op, user_id, p, args) ==
    [op |-> op, user_id |-> user_id, pc |-> p, status |-> 0, args |-> args,
     loaded |-> NoUser]

\* A call that has been answered
AdminAnswer(op, user_id, status) ==
    [op |-> op, user_id |-> user_id, pc |-> "done", status |-> status,
     args |-> NoArgs, loaded |-> NoUser]

\* The worker is free to take a call.
Free(c) == adminCall[c].pc \in {"idle", "done"}

\* The handler of call c is at step p of op.
At(c, op, p) == adminCall[c].op = op /\ adminCall[c].pc = p

\* db.query(models.User).filter(models.User.id == user_id)
UsersWithId(us, user_id) == {u \in us : u.id = user_id}

\* .first() of that query in the session of call c, for a row that exists:
\* the object the session already holds for this id, with its attributes as
\* loaded, or else the row as it is now.
FirstUserWithId(c, us, user_id) ==
    IF adminCall[c].loaded # NoUser
    THEN {adminCall[c].loaded}
    ELSE UsersWithId(us, user_id)

\* db.query(models.User).filter(models.User.email == user_in.email)
UsersWithEmail(us, email) == {u \in us : u.email = email}

\* db.query(models.User).filter(models.User.manager_id == user_id).count()
ReportCount(us, user_id) == Cardinality({v \in us : v.manager_id = user_id})

\* manager_id names a row of users (the foreign key users.id)
ManagerExists(us, m) == m = NoManager \/ UsersWithId(us, m) # {}

\* Another row refers to this user as its manager.
ReferencedByOthers(us, user_id) ==
    \E v \in us : v.id # user_id /\ v.manager_id = user_id

\* An activity_logs row belongs to this user.
HasLogs(rows, user_id) == \E j \in 1..Len(rows) : rows[j].user_id = user_id

\* The call moves to `call` and leaves the table as it was.
AdminStep(c, call) ==
    /\ adminCall' = [adminCall EXCEPT ![c] = call]
    /\ UNCHANGED <<users, nextUserId>>

\* get_current_user raises 401 (no valid token, or its user is gone);
\* get_current_admin_user raises 403 for a caller who is neither hr nor ceo.
AdminReject(c) ==
    /\ Free(c)
    /\ \E op \in AdminOps :
         \/ AdminStep(c, AdminAnswer(op, 0, 401))
         \/ /\ \E caller \in users : ~IsAdmin(caller)
            /\ AdminStep(c, AdminAnswer(op, 0, 403))
    /\ UNCHANGED <<db, aiKey, pc, req, payload, userId, tasks, lookups,
                   committed, response, logsToAdd>>

\* The fields a UserUpdate body sets: role or manager_id
UserUpdates ==
    {[NoArgs EXCEPT !.role = r] : r \in Roles}
    \cup {[NoArgs EXCEPT !.manager_id = m] : m \in ManagerIds}

\* The bodies of the create_user requests
UserCreates == [email : Emails, role : Roles, manager_id : ManagerIds]

\* The requests an admin may send: the handler's body is still to run.
AdminRequests ==
    {AdminCall("create_user", 0, "body", args) : args \in UserCreates}
    \cup {AdminCall("remove_user", user_id, "body", NoArgs) : user_id \in UserIds}
    \cup {AdminCall("update_user_details", user_id, "body", update_data) :
             user_id \in UserIds, update_data \in UserUpdates}

\* The call as its body finds it once get_current_user has loaded the
\* caller's row: the session holds that row, and it matters to the body when
\* user_id is the caller's own id.
LoadedBy(caller, call) ==
    [call EXCEPT !.loaded = IF call.op # "create_user" /\ call.user_id = caller.id
                            THEN caller ELSE NoUser]

\* get_current_admin_user lets the call through: its token names a user who
\* is hr or ceo when the dependency looks.  The handler's body runs after
\* that, on the same session.
AdminAccept(c) ==
    /\ Free(c)
    /\ \E caller \in users :
         /\ IsAdmin(caller)
         /\ \E call \in AdminRequests :
              /\ call.op = "create_user" => nextUserId <= MaxUserId
              /\ AdminStep(c, LoadedBy(caller, call))
    /\ UNCHANGED <<db, aiKey, pc, req, payload, userId, tasks, lookups,
                   committed, response, logsToAdd>>

\* POST /users, line 52: the address is looked up.
CreateUserCheck(c) ==
    /\ At(c, "create_user", "body")
    /\ LET args == adminCall[c].args
       IN  IF UsersWithEmail(users, args.email) # {}
           THEN AdminStep(c, AdminAnswer("create_user", 0, 409))
           ELSE AdminStep(c, AdminCall("create_user", 0, "insert", args))
    /\ UNCHANGED <<db, aiKey, pc, req, payload, userId, tasks, lookups,
                   committed, response, logsToAdd>>

\* The row create_user inserts
NewUser(id, args) ==
    [id |-> id, employee_id |-> "emp_" \o ToString(id), email |-> args.email,
     role |-> args.role, manager_id |-> args.manager_id]

\* Lines 62-63: INSERT and COMMIT.  The unique index on email refuses an
\* address registered since line 52; a manager_id that names no row is
\* refused where foreign keys are enforced.
CreateUserCommit(c) ==
    /\ At(c, "create_user", "insert")
    /\ LET args == adminCall[c].args
           row == NewUser(nextUserId, args)
       IN  IF UsersWithEmail(users, args.email) # {}
           THEN AdminStep(c, AdminAnswer("create_user", 0, 500))
           ELSE \/ /\ ~ManagerExists(users \cup {row}, args.manager_id)
                   /\ AdminStep(c, AdminAnswer("create_user", 0, 500))
                \/ /\ nextUserId <= MaxUserId
                   /\ users' = users \cup {row}
                   /\ nextUserId' = nextUserId + 1
                   /\ adminCall' = [adminCall EXCEPT ![c] =
                          AdminCall("create_user", nextUserId, "refresh", NoArgs)]
    /\ UNCHANGED <<db, aiKey, pc, req, payload, userId, tasks, lookups,
                   committed, response, logsToAdd>>

\* Line 64: db.refresh reads the row back; it raises when the row is gone.
CreateUserRefresh(c) ==
    /\ At(c, "create_user", "refresh")
    /\ LET user_id == adminCall[c].user_id
       IN  IF UsersWithId(users, user_id) = {}
           THEN AdminStep(c, AdminAnswer("create_user", user_id, 500))
           ELSE AdminStep(c, AdminAnswer("create_user", user_id, 201))
    /\ UNCHANGED <<db, aiKey, pc, req, payload, userId, tasks, lookups,
                   committed, response, logsToAdd>>

\* DELETE /users/{user_id}, lines 76-81: the user is looked up and its role,
\* as loaded (at authentication when the caller removes itself), decides
\* whether the reports are counted.
RemoveUserLookup(c) ==
    /\ At(c, "remove_user", "body")
    /\ LET user_id == adminCall[c].user_id
       IN  IF UsersWithId(users, user_id) = {}
           THEN AdminStep(c, AdminAnswer("remove_user", user_id, 404))
           ELSE \E db_user \in FirstUserWithId(c, users, user_id) :
                  AdminStep(c, AdminCall("remove_user", user_id,
                      IF db_user.role = "manager" THEN "count" ELSE "delete",
                      NoArgs))
    /\ UNCHANGED <<db, aiKey, pc, req, payload, userId, tasks, lookups,
                   committed, response, logsToAdd>>

\* Lines 83-84: the rows whose manager_id is user_id are counted.
RemoveUserCount(c) ==
    /\ At(c, "remove_user", "count")
    /\ LET user_id == adminCall[c].user_id
       IN  IF ReportCount(users, user_id) > 0
           THEN AdminStep(c, AdminAnswer("remove_user", user_id, 409))
           ELSE AdminStep(c, AdminCall("remove_user", user_id, "delete", NoArgs))
    /\ UNCHANGED <<db, aiKey, pc, req, payload, userId, tasks, lookups,
                   committed, response, logsToAdd>>

\* Lines 91-92: DELETE and COMMIT.  The user's activity rows would be left
\* without an owner, which their user_id column refuses; a row others name
\* as manager cannot go where foreign keys are enforced; a DELETE that finds
\* the row already gone is not an error.
RemoveUserDelete(c) ==
    /\ At(c, "remove_user", "delete")
    /\ LET user_id == adminCall[c].user_id
       IN  IF HasLogs(db, user_id)
           THEN AdminStep(c, AdminAnswer("remove_user", user_id, 500))
           ELSE IF UsersWithId(users, user_id) = {}
           THEN AdminStep(c, AdminAnswer("remove_user", user_id, 204))
           ELSE \/ /\ users' = users \ UsersWithId(users, user_id)
                   /\ adminCall' = [adminCall EXCEPT ![c] =
                          AdminAnswer("remove_user", user_id, 204)]
                   /\ UNCHANGED nextUserId
                \/ /\ ReferencedByOthers(users, user_id)
                   /\ AdminStep(c, AdminAnswer("remove_user", user_id, 500))
    /\ UNCHANGED <<db, aiKey, pc, req, payload, userId, tasks, lookups,
                   committed, response, logsToAdd>>

\* setattr on the loaded row: the fields whose value differs from the loaded
\* one are the ones the UPDATE writes.
NetChanges(u, update_data) ==
    [email |-> "",
     role |-> IF update_data.role # u.role THEN update_data.role ELSE "",
     manager_id |-> IF update_data.manager_id # u.manager_id
                    THEN update_data.manager_id ELSE Unset]

\* The row after the UPDATE of the fields in update_data
UpdatedUser(u, update_data) ==
    [u EXCEPT !.role = IF update_data.role # "" THEN update_data.role ELSE @,
              !.manager_id = IF update_data.manager_id # Unset
                             THEN update_data.manager_id ELSE @]

\* PUT /users/{user_id}, lines 113-119: the user is looked up and the fields
\* of the body are set on it; a field set to the value the session holds for
\* it (loaded at authentication when the caller updates itself) is no change.
UpdateUserLookup(c) ==
    /\ At(c, "update_user_details", "body")
    /\ LET user_id == adminCall[c].user_id
           update_data == adminCall[c].args
       IN  IF UsersWithId(users, user_id) = {}
           THEN AdminStep(c, AdminAnswer("update_user_details", user_id, 404))
           ELSE \E db_user \in FirstUserWithId(c, users, user_id) :
                  AdminStep(c, AdminCall("update_user_details", user_id, "write",
                                         NetChanges(db_user, update_data)))
    /\ UNCHANGED <<db, aiKey, pc, req, payload, userId, tasks, lookups,
                   committed, response, logsToAdd>>

\* Line 121: UPDATE and COMMIT.  Nothing is written when no field changed;
\* an UPDATE that finds the row gone raises; a manager_id that names no row
\* is refused where foreign keys are enforced.
UpdateUserCommit(c) ==
    /\ At(c, "update_user_details", "write")
    /\ LET user_id == adminCall[c].user_id
           update_data == adminCall[c].args
           refresh == AdminCall("update_user_details", user_id, "refresh", NoArgs)
       IN  IF update_data = NoArgs
           THEN AdminStep(c, refresh)
           ELSE IF UsersWithId(users, user_id) = {}
           THEN AdminStep(c, AdminAnswer("update_user_details", user_id, 500))
           ELSE \/ /\ update_data.manager_id # Unset
                   /\ ~ManagerExists(users, update_data.manager_id)
                   /\ AdminStep(c, AdminAnswer("update_user_details", user_id, 500))
                \/ /\ users' = {IF u.id = user_id THEN UpdatedUser(u, update_data)
                                ELSE u : u \in users}
                   /\ adminCall' = [adminCall EXCEPT ![c] = refresh]
                   /\ UNCHANGED nextUserId
    /\ UNCHANGED <<db, aiKey, pc, req, payload, userId, tasks, lookups,
                   committed, response, logsToAdd>>

\* Line 122: db.refresh reads the row back; it raises when the row is gone.
UpdateUserRefresh(c) ==
    /\ At(c, "update_user_details", "refresh")
    /\ LET user_id == adminCall[c].user_id
       IN  IF UsersWithId(users, user_id) = {}
           THEN AdminStep(c, AdminAnswer("update_user_details", user_id, 500))
           ELSE AdminStep(c, AdminAnswer("update_user_details", user_id, 200))
    /\ UNCHANGED <<db, aiKey, pc, req, payload, userId, tasks, lookups,
                   committed, response, logsToAdd>>

CreateUser(c) == CreateUserCheck(c) \/ CreateUserCommit(c) \/ CreateUserRefresh(c)

RemoveUser(c) == RemoveUserLookup(c) \/ RemoveUserCount(c) \/ RemoveUserDelete(c)

UpdateUserDetails(c) ==
    UpdateUserLookup(c) \/ UpdateUserCommit(c) \/ UpdateUserRefresh(c)

NextAdmin ==
    \E c \in Requests :
        \/ AdminReject(c)
        \/ AdminAccept(c)
        \/ CreateUser(c)
        \/ RemoveUser(c)
        \/ UpdateUserDetails(c)

\* The administration runs against one configuration of the server.
InitAdmin == Init /\ aiKey = "pplx-key"

SpecAdmin == InitAdmin /\ [][NextAdmin]_vars

----------------------------------------------------------------------------
(* The rule tables of the classifier's design: case-insensitive substring *)
(* match of the application name against configured lists.                *)

UpperCase == "ABCDEFGHIJKLMNOPQRSTUVWXYZ"

LowerCase == "abcdefghijklmnopqrstuvwxyz"

LowerChar(c) ==
    IF \E i \in 1..Len(UpperCase) : SubSeq(UpperCase, i, i) = c
    THEN LET i == CHOOSE k \in 1..Len(UpperCase) : SubSeq(UpperCase, k, k) = c
         IN  SubSeq(LowerCase, i, i)
    ELSE c

RECURSIVE ToLower(_)
ToLower(str) ==
    IF str = "" THEN ""
    ELSE LowerChar(SubSeq(str, 1, 1)) \o ToLower(SubSeq(str, 2, Len(str)))

Contains(str, sub) ==
    \E i \in 1..(Len(str) - Len(sub) + 1) : SubSeq(str, i, i + Len(sub) - 1) = sub

WorkAppList == {"code", "figma", "postman"}

PrivateAppList == {"spotify", "netflix", "discord"}

BrowserList == {"chrome", "firefox", "safari"}

MatchesList(app, list) ==
    /\ Truthy(app)
    /\ \E entry \in list : Contains(ToLower(app), entry)

----------------------------------------------------------------------------
(* Properties *)

TaskIds(r) == 1..Len(tasks[r])

\* The request has passed authentication and its body has been validated.
Accepted(r) == pc[r] \notin {"idle", "auth"} /\ KeyMatches(req[r].key)

\* C1: privacy invariant.  Every result classify_activity has returned, in
\* any request, and every committed ActivityLog row carries details only when
\* its category is Work: a Private or Idle result or row has details None.
PrivacyInvariant ==
    /\ \A r \in Requests : \A i \in TaskIds(r) :
         tasks[r][i].status = "done" /\ tasks[r][i].details # NoneVal
            => tasks[r][i].category = "Work"
    /\ \A j \in 1..Len(db) :
         db[j].details # NoneVal => db[j].category = "Work"

\* C1 witness: the AI labelled a sample with an application and a title
\* Private, and the result came back without details.
PrivateResultWithTitle ==
    \E r \in Requests : \E i \in TaskIds(r) :
        /\ tasks[r][i].status = "done"
        /\ tasks[r][i].called
        /\ tasks[r][i].category = "Private"
        /\ tasks[r][i].details = NoneVal
        /\ Truthy(payload[r].logs[i].app)
        /\ Truthy(payload[r].logs[i].title)

\* C2: a sample whose state is idle, whatever its app and title, is
\* classified (Idle, None) and classify_with_ai is never invoked for it: its
\* task is never suspended on the AI call.
IdleNeverReachesAi ==
    \A r \in Requests : \A i \in TaskIds(r) :
        payload[r].logs[i].state = "idle" =>
            /\ tasks[r][i].status \in {"new", "done"}
            /\ ~tasks[r][i].called
            /\ ~tasks[r][i].posted
            /\ tasks[r][i].status = "done" =>
                 tasks[r][i].category = "Idle" /\ tasks[r][i].details = NoneVal

\* C2 witness: an idle sample that names a private application and carries a
\* title has been classified while the AI service was configured.
IdleSampleClassified ==
    \E r \in Requests : \E i \in TaskIds(r) :
        /\ payload[r].logs[i].state = "idle"
        /\ payload[r].logs[i].app = "Spotify"
        /\ payload[r].logs[i].title = "T"
        /\ tasks[r][i].status = "done"
        /\ aiKey # ""

\* C3: a non-idle sample whose app matches the private-application list is
\* classified (Private, None), whatever its title and whatever the AI service
\* answers.
PrivateAppsStayPrivate ==
    \A r \in Requests : \A i \in TaskIds(r) :
        /\ payload[r].logs[i].state # "idle"
        /\ MatchesList(payload[r].logs[i].app, PrivateAppList)
        /\ tasks[r][i].status = "done"
        => tasks[r][i].category = "Private" /\ tasks[r][i].details = NoneVal

\* C4: a non-idle sample whose app matches the work-application list is
\* classified Work by rule: no AI call is made for it and its category is
\* Work whatever the AI service would answer.
WorkAppsAreWorkByRule ==
    \A r \in Requests : \A i \in TaskIds(r) :
        /\ payload[r].logs[i].state # "idle"
        /\ MatchesList(payload[r].logs[i].app, WorkAppList)
        /\ tasks[r][i].status # "new"
        => /\ ~tasks[r][i].posted
           /\ tasks[r][i].status = "done"
           /\ tasks[r][i].category = "Work"

\* C5: a non-idle sample from a recognized browser with an absent or empty
\* title is classified (Private, None) and no AI call is made for it.
BrowserWithoutTitleIsPrivate ==
    \A r \in Requests : \A i \in TaskIds(r) :
        /\ payload[r].logs[i].state # "idle"
        /\ MatchesList(payload[r].logs[i].app, BrowserList)
        /\ ~Truthy(payload[r].logs[i].title)
        /\ tasks[r][i].status # "new"
        => /\ ~tasks[r][i].posted
           /\ tasks[r][i].status = "done"
           /\ tasks[r][i].category = "Private"
           /\ tasks[r][i].details = NoneVal

\* C6: default-deny.  A non-idle sample whose app is on neither list and is
\* no recognized browser is classified (Private, None) without consulting the
\* AI service.
UnrecognizedAppsArePrivate ==
    \A r \in Requests : \A i \in TaskIds(r) :
        /\ payload[r].logs[i].state # "idle"
        /\ ~MatchesList(payload[r].logs[i].app, WorkAppList)
        /\ ~MatchesList(payload[r].logs[i].app, PrivateAppList)
        /\ ~MatchesList(payload[r].logs[i].app, BrowserList)
        /\ tasks[r][i].status # "new"
        => /\ ~tasks[r][i].posted
           /\ tasks[r][i].status = "done"
           /\ tasks[r][i].category = "Private"
           /\ tasks[r][i].details = NoneVal

\* C7: whatever the AI request comes back with, classify_with_ai returns Work
\* or Private and never raises, so no classification task ends with an
\* exception and no request fails because of one.
AiFailuresAreAbsorbed ==
    \A r \in Requests :
        /\ \A i \in TaskIds(r) :
             /\ tasks[r][i].status # "raised"
             /\ tasks[r][i].status = "done" /\ tasks[r][i].called
                  => tasks[r][i].category \in {"Work", "Private"}
        /\ pc[r] = "done" /\ response[r].status = 500
             => \A i \in TaskIds(r) : tasks[r][i].status = "done"

\* C8: a request whose X-API-Key is not exactly the daemon secret is rejected
\* with 403 before the handler body runs: no user lookup, no classification
\* task (so no AI call), no row committed, whatever other requests are doing.
BadKeyRejectedFirst ==
    \A r \in Requests :
        pc[r] # "idle" /\ req[r].key # DAEMON_API_KEY =>
            /\ pc[r] \in {"auth", "done"}
            /\ pc[r] = "done" => response[r].status = 403
            /\ lookups[r] = 0
            /\ userId[r] = 0
            /\ payload[r] = NoPayload
            /\ tasks[r] = <<>>
            /\ committed[r] = 0

\* C8 witness: a request with a near-miss key, a known employee and a full
\* batch has been rejected while another request was being classified.
NearMissKeyRejected ==
    \E r \in Requests :
        /\ pc[r] = "done"
        /\ req[r].key = "Daemon-Secret"
        /\ req[r].employee_id = "emp_1"
        /\ Len(req[r].logs) = MaxBatch
        /\ response[r].status = 403
        /\ \E q \in Requests \ {r} : pc[q] = "gather"

\* C9: a request whose employee_id resolves to no User is rejected with 404
\* before any sample is classified: no task is created (so no AI call) and
\* the request commits no row.
UnknownEmployeeRejected ==
    \A r \in Requests :
        Accepted(r) /\ (\A u \in users : u.employee_id # req[r].employee_id) =>
            /\ pc[r] \in {"lookup", "done"}
            /\ pc[r] = "done" => response[r].status = 404 /\ lookups[r] = 1
            /\ userId[r] = 0
            /\ tasks[r] = <<>>
            /\ committed[r] = 0

\* C9 witness: an authenticated request for an unknown employee, with a
\* non-idle sample in its batch, has been answered 404.
UnknownEmployeeAnswered ==
    \E r \in Requests :
        /\ pc[r] = "done"
        /\ req[r].key = DAEMON_API_KEY
        /\ req[r].employee_id = "emp_404"
        /\ \E i \in 1..Len(req[r].logs) : req[r].logs[i].state = "active"
        /\ response[r].status = 404

\* C10: batch atomicity.  Once a request has ended, however it ended, the
\* rows it committed are all N of its batch or none; while it runs it has
\* committed nothing.
BatchAtomicity ==
    \A r \in Requests :
        /\ pc[r] # "done" => committed[r] = 0
        /\ pc[r] = "done" => committed[r] \in {0, Len(req[r].logs)}

\* C10 witness: a request for a known employee with a full batch, every
\* sample classified, has ended in the record-assembly error with nothing
\* committed.
FullBatchEndedWithoutRows ==
    \E r \in Requests :
        /\ pc[r] = "done"
        /\ userId[r] # 0
        /\ Len(req[r].logs) = MaxBatch
        /\ \A i \in TaskIds(r) : tasks[r][i].status = "done"
        /\ response[r].status = 500
        /\ committed[r] = 0
        /\ db = <<>>

\* The handler has come back from the gather with every classification
\* returned and has run its tail (lines 52-70): it was not cancelled at the
\* await.
TailRan(r) ==
    /\ pc[r] = "done"
    /\ userId[r] # 0
    /\ AllResolved(tasks[r])
    /\ response[r].error # "CancelledError"

\* C11: output ordering.  Once every classification of a batch has returned
\* and the records have been assembled, there is one record per sample, in
\* input order, and the i-th record carries the timestamp of the i-th sample
\* and the category and details returned for that same sample.
RecordsFollowSamples ==
    \A r \in Requests :
        TailRan(r) =>
            /\ Len(logsToAdd[r]) = Len(payload[r].logs)
            /\ \A i \in 1..Len(logsToAdd[r]) :
                 /\ logsToAdd[r][i].start_time = payload[r].logs[i].timestamp
                 /\ logsToAdd[r][i].category = tasks[r][i].category
                 /\ logsToAdd[r][i].details = tasks[r][i].details

\* The fixed interval a sample is assumed to cover when it carries no
\* duration of its own.
DefaultDuration == 5

\* The duration the policy gives the record of a sample as the daemon sent it.
PolicyDuration(raw) ==
    IF "duration" \in DOMAIN raw THEN raw.duration ELSE DefaultDuration

\* C12: duration policy.  Once a batch has been classified and the store has
\* not refused the commit, each sample has its persisted record, whose
\* duration_seconds is the sample's explicit duration when it carries one
\* (42 gives 42) and the configured default (5) otherwise.
DurationPolicy ==
    \A r \in Requests :
        TailRan(r) /\ response[r].error # "SQLAlchemyError" =>
            /\ committed[r] = Len(req[r].logs)
            /\ Len(logsToAdd[r]) = Len(req[r].logs)
            /\ \A i \in 1..Len(req[r].logs) :
                 logsToAdd[r][i].duration_seconds = PolicyDuration(req[r].logs[i])

\* C13: a request with the valid credential, a known employee and N >= 1
\* well-formed samples, the store not refusing the commit and no AI answer
\* making a classification raise, ends in success: status 200,
\* logs_processed = N and exactly N records committed.
WellFormedBatchSucceeds ==
    \A r \in Requests :
        /\ TailRan(r)
        /\ Len(req[r].logs) >= 1
        /\ response[r].error # "SQLAlchemyError"
        => /\ response[r].status = 200
           /\ response[r].logs_processed = Len(req[r].logs)
           /\ committed[r] = Len(req[r].logs)

\* The outbound AI calls of the request that are in flight.
InFlight(r) == Cardinality({i \in TaskIds(r) : tasks[r][i].status = "waiting"})

\* A fixed concurrency limit below the largest batch.
AiConcurrencyBound == MaxBatch - 1

\* C16: the number of outbound AI calls in flight within one request never
\* exceeds a fixed concurrency bound, however many samples the batch has.
BoundedFanOut == \A r \in Requests : InFlight(r) <= AiConcurrencyBound

\* Some classification of the request has not returned.
Unresolved(r) == \E i \in TaskIds(r) : tasks[r][i].status # "done"

\* C17: single commit point.  While any classification of a request is
\* unresolved the request has staged and committed no record and its tail
\* has not run: a response given then is the exception of a failed
\* classification or the cancellation.  A request aborted before the commit
\* has committed no record.
SingleCommitPoint ==
    \A r \in Requests :
        /\ Unresolved(r) =>
             /\ logsToAdd[r] = <<>>
             /\ committed[r] = 0
             /\ pc[r] = "done" =>
                  \/ response[r].error = "CancelledError"
                  \/ \E i \in TaskIds(r) :
                       /\ tasks[r][i].status = "raised"
                       /\ response[r] = Failed(500, tasks[r][i].exc)
        /\ response[r].error = "CancelledError" =>
             committed[r] = 0 /\ logsToAdd[r] = <<>>

\* C17 witness: a request with a full batch was aborted when one
\* classification had returned and another was still waiting for the AI
\* service; nothing was committed.
AbortedWithPendingTask ==
    \E r \in Requests :
        /\ pc[r] = "done"
        /\ response[r].error = "CancelledError"
        /\ Len(tasks[r]) = MaxBatch
        /\ \E i \in TaskIds(r) : tasks[r][i].status = "cancelled" /\ tasks[r][i].posted
        /\ \E i \in TaskIds(r) : tasks[r][i].status = "done" /\ tasks[r][i].posted
        /\ committed[r] = 0
        /\ db = <<>>

\* The tasks that have returned the label Work.
WorkTasks(r) ==
    {i \in TaskIds(r) : tasks[r][i].status = "done" /\ tasks[r][i].category = "Work"}

\* C14: for every sample labelled Work, details is "<app> - <title>" when
\* both are present, whichever single one is present when only one is, and
\* null when neither is.  Present means neither null nor empty.
WorkDetailsNullWhenNeither ==
    \A r \in Requests : \A i \in WorkTasks(r) :
        LET app == payload[r].logs[i].app
            title == payload[r].logs[i].title
        IN  tasks[r][i].details =
                IF Truthy(app) /\ Truthy(title) THEN app \o " - " \o title
                ELSE IF Truthy(title) THEN title
                ELSE IF Truthy(app) THEN app
                ELSE NoneVal

\* C15: in any sequence of create_user, update_user_details and remove_user
\* calls, a remove_user call on a user who at that moment has role 'manager'
\* and is the manager_id of at least one other user is answered 409 and
\* leaves the users table as it was: the user is not deleted.  Stated of the
\* step in which the call is answered.
ManagerWithReportsIsKept ==
    [][\A c \in Requests : \A u \in users :
          /\ adminCall[c].op = "remove_user"
          /\ adminCall[c].pc \in {"count", "delete"}
          /\ adminCall'[c].pc = "done"
          /\ adminCall[c].user_id = u.id
          /\ u.role = "manager"
          /\ \E v \in users : v.id # u.id /\ v.manager_id = u.id
          => adminCall'[c].status = 409 /\ users' = users]_vars

====
